---- MODULE Spec2Model ----
(***************************************************************************)
(* Model of io_scene_godot/converters/physics.py: the physics pre-pass of  *)
(* the Godot exporter.  A scene of parent-linked objects is walked parents *)
(* first; every object that carries a rigid body goes through              *)
(* export_physics_properties, which creates the body node of a physics     *)
(* root and one CollisionShape node per object, and registers the shape    *)
(* resources in the resource table of the output file.                     *)
(*                                                                         *)
(* Object references are object ids 1..num_objects, output-node references *)
(* are positions in the node list of the file, resource ids are positions  *)
(* in its resource list, and Python's None is None (no object, no node, no *)
(* resource id).  Matrices are kept symbolic.                              *)
(***************************************************************************)
EXTENDS Integers, Sequences, FiniteSets, TLC

\* Number of objects of the scene in the hierarchy sessions (Spec).
MaxObjects == 3
\* Number of objects of the scene in the shape-cache sessions (SpecShapes).
MaxShapeObjects == 2

\* Python's None: no parent, no node, no resource id.
None == 0

PHYSICS_TYPES_no_static == {"KinematicBody", "RigidBody"}
PHYSICS_TYPES == {"KinematicBody", "RigidBody", "StaticBody"}

VARIABLES
    num_objects,        \* number of objects in the scene
    parent,             \* parent[o]: node.parent, None for a top-level object
    has_rbd,            \* has_rbd[o]: node.rigid_body is not None
    bl_objects,         \* the objects read so far: id, rigid_body, data
    next_obj,           \* the next object the scene walk visits
    gd_node,            \* gd_node[o]: output node the walk made for object o
    nodes,              \* escn_file: registered nodes, in registration order
    internal_resources, \* escn_file: registered internal resources (id = position)
    mesh_log,           \* calls made to the mesh collaborator, in order
    error               \* an exception left export_physics_properties

vars == <<num_objects, parent, has_rbd, bl_objects, next_obj, gd_node, nodes,
          internal_resources, mesh_log, error>>

----------------------------------------------------------------------------
(* Inputs: the rigid bodies and mesh data the objects of a scene may carry *)

BodyKinds ==
    { [type |-> "ACTIVE",  kinematic |-> FALSE],
      [type |-> "ACTIVE",  kinematic |-> TRUE],
      [type |-> "PASSIVE", kinematic |-> FALSE] }

PrimitiveShapes == {"BOX", "SPHERE", "CAPSULE"}
MeshShapes == {"CONVEX_HULL", "MESH"}
\* CYLINDER stands for any collision_shape outside the five handled ones.
OtherShapes == {"CYLINDER"}
CollisionShapes == PrimitiveShapes \cup MeshShapes \cup OtherShapes

\* collision_margin 0 is 0.0, 1 is any positive margin.
Margins == {0, 1}

\* Mesh data blocks: "solid" evaluates to a mesh with faces, "verts" to a
\* mesh with vertices and no polygons, "empty" to no mesh at all.
Geometries == {"solid", "verts", "empty"}

RigidBody(kind, shape, use_margin, collision_margin) ==
    [type |-> kind.type, kinematic |-> kind.kinematic,
     collision_shape |-> shape, use_margin |-> use_margin,
     collision_margin |-> collision_margin]

\* Hierarchy sessions: every body kind, with a primitive and a mesh-derived
\* shape kind.
HierarchyShapes == {"BOX", "CONVEX_HULL"}
HierarchyInputs ==
    { [rigid_body |-> RigidBody(k, s, FALSE, 0), data |-> "solid"] :
        k \in BodyKinds, s \in HierarchyShapes }

\* Shape-cache sessions: every shape kind, margin setting and mesh outcome.
ShapeBodyKinds == { k \in BodyKinds : k.type = "ACTIVE" /\ ~k.kinematic }
ShapeInputs ==
    { [rigid_body |-> RigidBody(k, s, u, m), data |-> g] :
        k \in ShapeBodyKinds, s \in MeshShapes, u \in BOOLEAN, m \in Margins,
        g \in Geometries }
    \cup
    { [rigid_body |-> RigidBody(k, s, u, m), data |-> "solid"] :
        k \in ShapeBodyKinds, s \in PrimitiveShapes, u \in BOOLEAN, m \in Margins }
    \cup
    { [rigid_body |-> RigidBody(k, s, FALSE, 0), data |-> "solid"] :
        k \in ShapeBodyKinds, s \in OtherShapes }

----------------------------------------------------------------------------
(* Hierarchy resolution *)

has_physics(node) == has_rbd[node]

RECURSIVE get_physics_root_loop(_, _)
get_physics_root_loop(current_node, parent_rbd) ==
    IF parent[current_node] = None
    THEN parent_rbd
    ELSE get_physics_root_loop(
             parent[current_node],
             IF has_rbd[parent[current_node]]
             THEN parent[current_node] ELSE parent_rbd)

RECURSIVE get_physics_root_nearest_loop(_)
get_physics_root_nearest_loop(current_node) ==
    IF parent[current_node] = None
    THEN None
    ELSE IF has_rbd[parent[current_node]]
         THEN parent[current_node]
         ELSE get_physics_root_nearest_loop(parent[current_node])

\* Bug variant: stops at the nearest ancestor that carries a rigid body.
get_physics_root_nearest(node) == get_physics_root_nearest_loop(node)

get_physics_root(node) == get_physics_root_loop(node, None)

is_physics_root(node) == get_physics_root(node) = None

----------------------------------------------------------------------------
(* The output file: node list, resource table; the mesh collaborator *)

Unset == <<>>
SubResource(shape_id) == <<"SubResource", shape_id>>

NodeTemplate(name, type, parent_gd_node) ==
    [name |-> name, type |-> type, parent |-> parent_gd_node,
     transform |-> Unset, shape |-> Unset, physics_material_override |-> Unset]

InternalResource(type, name) ==
    [type |-> type, name |-> name, margin |-> Unset,
     key |-> [cls |-> "", data |-> Unset]]

\* __eq__ of resource keys: same class and same data.
KeyEq(a, b) == a.cls = b.cls /\ a.data = b.data

add_node(escn_file, node) ==
    [escn_file EXCEPT !.nodes = Append(@, node)]

get_internal_resource(escn_file, hashable) ==
    LET hits == { i \in DOMAIN escn_file.internal_resources :
                    KeyEq(escn_file.internal_resources[i].key, hashable) }
    IN IF hits = {} THEN None
       ELSE CHOOSE i \in hits : \A j \in hits : i <= j

force_add_internal_resource(escn_file, item) ==
    [escn_file |->
        [escn_file EXCEPT !.internal_resources = Append(@, item)],
     ret |-> Len(escn_file.internal_resources) + 1]

add_internal_resource(escn_file, item, hashable) ==
    IF get_internal_resource(escn_file, hashable) # None
    THEN [escn_file |-> escn_file,
          ret |-> get_internal_resource(escn_file, hashable)]
    ELSE force_add_internal_resource(
             escn_file, [item EXCEPT !.key = hashable])

to_mesh(bl_object) ==
    [is_none |-> bl_object.data = "empty",
     polygons |-> bl_object.data = "solid",
     name |-> bl_object.data]

MeshResourceKey(shape_type, bl_object) == <<shape_type, bl_object.data>>


----------------------------------------------------------------------------
(* Shape generation and the shape cache *)

\* Bug variant: the key is taken from the object instead of its mesh data.
MeshCollisionShapeKey_per_object(shape_type, bl_object) ==
    LET margin == IF bl_object.rigid_body.use_margin
                  THEN bl_object.rigid_body.collision_margin ELSE 0
    IN [cls |-> "MeshCollisionShapeKey",
        data |-> <<margin, <<shape_type, bl_object.id>>>>]

MeshCollisionShapeKey(shape_type, bl_object) ==
    LET mesh_data_key == MeshResourceKey(shape_type, bl_object)
        margin == IF bl_object.rigid_body.use_margin
                  THEN bl_object.rigid_body.collision_margin ELSE 0
    IN [cls |-> "MeshCollisionShapeKey", data |-> <<margin, mesh_data_key>>]

\* A call of the mesh collaborator, recorded in the session.
MeshCall(escn_file, call, bl_object) ==
    [escn_file EXCEPT !.mesh_log = Append(@, <<call, bl_object.id>>)]

\* col_shape['margin'] = collision_margin when the rigid body uses a margin.
WithMargin(col_shape, rbd) ==
    IF rbd.use_margin
    THEN [col_shape EXCEPT !.margin = <<rbd.collision_margin>>]
    ELSE col_shape

generate_convex_shape(escn_file, bl_object) ==
    LET shape_rsc_key == MeshCollisionShapeKey("ConvexPolygonShape", bl_object)
        shape_id == get_internal_resource(escn_file, shape_rsc_key)
    IN IF shape_id # None
       THEN [escn_file |-> escn_file, ret |-> shape_id]
       ELSE
         LET acquired == MeshCall(escn_file, "to_mesh", bl_object)
             mesh == to_mesh(bl_object)
             built ==
               IF ~mesh.is_none
               THEN add_internal_resource(
                        acquired,
                        WithMargin(
                            InternalResource("ConvexPolygonShape", mesh.name),
                            bl_object.rigid_body),
                        shape_rsc_key)
               ELSE [escn_file |-> acquired, ret |-> shape_id]
         IN [escn_file |->
                MeshCall(built.escn_file, "to_mesh_clear", bl_object),
             ret |-> built.ret]

\* Bug variant: returns as soon as the mesh is unusable, without releasing it.
generate_concave_shape_early_return(escn_file, bl_object) ==
    LET shape_rsc_key == MeshCollisionShapeKey("ConcavePolygonShape", bl_object)
        shape_id == get_internal_resource(escn_file, shape_rsc_key)
    IN IF shape_id # None
       THEN [escn_file |-> escn_file, ret |-> shape_id]
       ELSE
         LET acquired == MeshCall(escn_file, "to_mesh", bl_object)
             mesh == to_mesh(bl_object)
         IN IF mesh.is_none \/ ~mesh.polygons
            THEN [escn_file |-> acquired, ret |-> None]
            ELSE
              LET built == add_internal_resource(
                               acquired,
                               WithMargin(
                                   InternalResource("ConcavePolygonShape",
                                                    mesh.name),
                                   bl_object.rigid_body),
                               shape_rsc_key)
              IN [escn_file |->
                     MeshCall(built.escn_file, "to_mesh_clear", bl_object),
                  ret |-> built.ret]

generate_concave_shape(escn_file, bl_object) ==
    LET shape_rsc_key == MeshCollisionShapeKey("ConcavePolygonShape", bl_object)
        shape_id == get_internal_resource(escn_file, shape_rsc_key)
    IN IF shape_id # None
       THEN [escn_file |-> escn_file, ret |-> shape_id]
       ELSE
         LET acquired == MeshCall(escn_file, "to_mesh", bl_object)
             mesh == to_mesh(bl_object)
             built ==
               IF ~mesh.is_none /\ mesh.polygons
               THEN add_internal_resource(
                        acquired,
                        WithMargin(
                            InternalResource("ConcavePolygonShape", mesh.name),
                            bl_object.rigid_body),
                        shape_rsc_key)
               ELSE [escn_file |-> acquired, ret |-> shape_id]
         IN [escn_file |->
                MeshCall(built.escn_file, "to_mesh_clear", bl_object),
             ret |-> built.ret]

\* Bug variant: primitive shapes keyed by their kind instead of the rigid body.
rbd_key_by_kind(node) ==
    [cls |-> "RigidBodyObject", data |-> node.rigid_body.collision_shape]

\* The key of a primitive shape is the rigid body itself (its identity), and
\* every object owns its rigid body.
rbd_key(node) == [cls |-> "RigidBodyObject", data |-> node.id]

PrimitiveShapeType(collision_shape) ==
    CASE collision_shape = "BOX" -> "BoxShape"
      [] collision_shape = "SPHERE" -> "SphereShape"
      [] collision_shape = "CAPSULE" -> "CapsuleShape"

export_collision_shape(escn_file, node, parent_gd_node, parent_override) ==
    LET col_name == <<node.id, "Collision">>
        col_node == [NodeTemplate(col_name, "CollisionShape", parent_gd_node)
                        EXCEPT !.transform = <<parent_override, node.id>>]
        rbd == node.rigid_body
    IN IF rbd.collision_shape \in {"CONVEX_HULL", "MESH"}
       THEN
         LET generated == IF rbd.collision_shape = "CONVEX_HULL"
                          THEN generate_convex_shape(escn_file, node)
                          ELSE generate_concave_shape(escn_file, node)
             shaped == IF generated.ret # None
                       THEN [col_node EXCEPT !.shape = SubResource(generated.ret)]
                       ELSE col_node
         IN [escn_file |-> add_node(generated.escn_file, shaped),
             ret |-> Len(generated.escn_file.nodes) + 1]
       ELSE
         LET added ==
               IF rbd.collision_shape \in {"BOX", "SPHERE", "CAPSULE"}
               THEN add_internal_resource(
                        escn_file,
                        WithMargin(
                            InternalResource(
                                PrimitiveShapeType(rbd.collision_shape),
                                col_name),
                            rbd),
                        rbd_key(node))
               ELSE [escn_file |-> escn_file, ret |-> None]
             shaped == [col_node EXCEPT !.shape = SubResource(added.ret)]
         IN [escn_file |-> add_node(added.escn_file, shaped),
             ret |-> Len(added.escn_file.nodes) + 1]

----------------------------------------------------------------------------
(* Body nodes and the orchestrator *)

export_physics_controller(escn_file, node, parent_gd_node) ==
    LET phys_name == <<node.id, "Physics">>
        rbd == node.rigid_body
        phys_controller ==
            IF rbd.type = "ACTIVE"
            THEN (IF rbd.kinematic THEN "KinematicBody" ELSE "RigidBody")
            ELSE "StaticBody"
        phys_obj == [NodeTemplate(phys_name, phys_controller, parent_gd_node)
                        EXCEPT !.transform = <<"matrix_local", node.id>>]
        material ==
            IF phys_controller # "KinematicBody"
            THEN force_add_internal_resource(
                     escn_file,
                     InternalResource("PhysicsMaterial",
                                      <<node.id, "PhysicsMaterial">>))
            ELSE [escn_file |-> escn_file, ret |-> None]
        with_material ==
            IF phys_controller # "KinematicBody"
            THEN [phys_obj EXCEPT
                    !.physics_material_override = SubResource(material.ret)]
            ELSE phys_obj
    IN [escn_file |-> add_node(material.escn_file, with_material),
        ret |-> Len(material.escn_file.nodes) + 1]

\* The upward walk over output nodes (the while loop); None when the walk
\* steps onto the absent parent of a top-level node (an AttributeError).
RECURSIVE trace_to_physics_node(_, _)
trace_to_physics_node(escn_file, gd_node_ptr) ==
    IF gd_node_ptr = None
    THEN None
    ELSE IF escn_file.nodes[gd_node_ptr].type \in PHYSICS_TYPES
         THEN gd_node_ptr
         ELSE trace_to_physics_node(escn_file,
                                    escn_file.nodes[gd_node_ptr].parent)

\* Bug variant: a body node is created for every object, root or not.
export_physics_properties_always_body(escn_file, node, parent_gd_node) ==
    LET parent_rbd == get_physics_root(node.id)
        controller == export_physics_controller(escn_file, node, parent_gd_node)
        physics_gd_node ==
            trace_to_physics_node(controller.escn_file, controller.ret)
    IN IF physics_gd_node = None
       THEN [escn_file |-> controller.escn_file, ret |-> None, raised |-> TRUE]
       ELSE LET col == export_collision_shape(
                           controller.escn_file, node, physics_gd_node,
                           parent_rbd)
            IN [escn_file |-> col.escn_file, ret |-> col.ret,
                raised |-> FALSE]

\* Bug variant: the collision node is created and registered first, the body
\* node of a root after it.
export_physics_properties_shape_first(escn_file, node, parent_gd_node) ==
    LET parent_rbd == get_physics_root(node.id)
    IN IF parent_rbd = None
       THEN LET col == export_collision_shape(
                           escn_file, node, Len(escn_file.nodes) + 2,
                           parent_rbd)
                controller == export_physics_controller(
                                  col.escn_file, node, parent_gd_node)
            IN [escn_file |-> controller.escn_file, ret |-> col.ret,
                raised |-> FALSE]
       ELSE LET physics_gd_node ==
                    trace_to_physics_node(escn_file, parent_gd_node)
            IN IF physics_gd_node = None
               THEN [escn_file |-> escn_file, ret |-> None, raised |-> TRUE]
               ELSE LET col == export_collision_shape(
                                   escn_file, node, physics_gd_node,
                                   parent_rbd)
                    IN [escn_file |-> col.escn_file, ret |-> col.ret,
                        raised |-> FALSE]

\* Bug variant: the collision node is attached to the attachment context
\* itself, without the upward walk to the body node.
export_physics_properties_no_walk(escn_file, node, parent_gd_node) ==
    LET parent_rbd == get_physics_root(node.id)
        controller ==
            IF parent_rbd = None
            THEN export_physics_controller(escn_file, node, parent_gd_node)
            ELSE [escn_file |-> escn_file, ret |-> parent_gd_node]
        col == export_collision_shape(
                   controller.escn_file, node, controller.ret, parent_rbd)
    IN [escn_file |-> col.escn_file, ret |-> col.ret, raised |-> FALSE]

export_physics_properties(escn_file, node, parent_gd_node) ==
    LET parent_rbd == get_physics_root(node.id)
        controller ==
            IF parent_rbd = None
            THEN export_physics_controller(escn_file, node, parent_gd_node)
            ELSE [escn_file |-> escn_file, ret |-> parent_gd_node]
        physics_gd_node ==
            trace_to_physics_node(controller.escn_file, controller.ret)
    IN IF physics_gd_node = None
       THEN [escn_file |-> controller.escn_file, ret |-> None, raised |-> TRUE]
       ELSE LET col == export_collision_shape(
                           controller.escn_file, node, physics_gd_node,
                           parent_rbd)
            IN [escn_file |-> col.escn_file, ret |-> col.ret,
                raised |-> FALSE]

----------------------------------------------------------------------------
(* The export session: the scene walk calling the physics pre-pass *)

\* The scenes of n objects: object ids follow the walk order, so a parent has
\* a smaller id than its children.
InitScene(n) ==
    /\ num_objects = n
    /\ parent \in { p \in [1..n -> 0..(n - 1)] : \A o \in 1..n : p[o] < o }
    /\ has_rbd \in [1..n -> BOOLEAN]
    /\ bl_objects = <<>>
    /\ next_obj = 1
    /\ gd_node = <<>>
    /\ nodes = << NodeTemplate(<<None, "Scene">>, "Spatial", None) >>
    /\ internal_resources = <<>>
    /\ mesh_log = <<>>
    /\ error = FALSE

Init == InitScene(MaxObjects)
InitShapes == InitScene(MaxShapeObjects)

\* The attachment context the walk passes for object o: the node exported
\* for its parent, or the scene root.
ParentGdNode(o) == IF parent[o] = None THEN 1 ELSE gd_node[parent[o]]

\* The walk visits a physics-enabled object: the physics pre-pass runs first,
\* then the object's own node is created under the node it returned.
ExportPhysicsObject(inputs) ==
    /\ ~error
    /\ next_obj <= num_objects
    /\ has_physics(next_obj)
    /\ \E inp \in inputs :
         LET node == [id |-> next_obj, rigid_body |-> inp.rigid_body,
                      data |-> inp.data]
             done == export_physics_properties(
                         [nodes |-> nodes,
                          internal_resources |-> internal_resources,
                          mesh_log |-> mesh_log],
                         node, ParentGdNode(next_obj))
             mesh_node == NodeTemplate(<<next_obj, "">>, "MeshInstance",
                                       done.ret)
         IN /\ bl_objects' = Append(bl_objects, node)
            /\ internal_resources' = done.escn_file.internal_resources
            /\ mesh_log' = done.escn_file.mesh_log
            /\ error' = done.raised
            /\ IF done.raised
               THEN /\ nodes' = done.escn_file.nodes
                    /\ UNCHANGED <<next_obj, gd_node>>
               ELSE /\ nodes' = Append(done.escn_file.nodes, mesh_node)
                    /\ gd_node' = Append(gd_node, Len(done.escn_file.nodes) + 1)
                    /\ next_obj' = next_obj + 1
    /\ UNCHANGED <<num_objects, parent, has_rbd>>

\* The walk visits an object without physics: only its own node is created.
ExportPlainObject ==
    /\ ~error
    /\ next_obj <= num_objects
    /\ ~has_physics(next_obj)
    /\ bl_objects' = Append(bl_objects,
                            [id |-> next_obj, rigid_body |-> None,
                             data |-> "solid"])
    /\ nodes' = Append(nodes, NodeTemplate(<<next_obj, "">>, "Spatial",
                                           ParentGdNode(next_obj)))
    /\ gd_node' = Append(gd_node, Len(nodes) + 1)
    /\ next_obj' = next_obj + 1
    /\ UNCHANGED <<num_objects, parent, has_rbd, internal_resources, mesh_log,
                   error>>

ExportHierarchyObject == ExportPhysicsObject(HierarchyInputs)
ExportShapeObject == ExportPhysicsObject(ShapeInputs)

Next == ExportHierarchyObject \/ ExportPlainObject
Spec == Init /\ [][Next]_vars

NextShapes == ExportShapeObject \/ ExportPlainObject
SpecShapes == InitShapes /\ [][NextShapes]_vars

----------------------------------------------------------------------------
(* Vocabulary of the properties, stated on the scene and the output file
   without the operators of the exporter *)

Objects == 1..num_objects
Exported == 1..(next_obj - 1)
ExportedPhysics == { o \in Exported : has_rbd[o] }

RECURSIVE ParentPow(_, _)
ParentPow(o, k) ==
    IF k = 0 \/ o = None THEN o ELSE ParentPow(parent[o], k - 1)

\* Strict ancestors of o, and those of them that carry a rigid body.
Ancestors(o) == { a \in Objects : \E k \in 1..num_objects : ParentPow(o, k) = a }
PhysicsAncestors(o) == { a \in Ancestors(o) : has_rbd[a] }

\* The physics-carrying strict ancestor that has no physics-carrying ancestor.
UpperMost(o) == CHOOSE a \in PhysicsAncestors(o) : PhysicsAncestors(a) = {}
IsRoot(o) == has_rbd[o] /\ PhysicsAncestors(o) = {}
RootOf(o) == IF PhysicsAncestors(o) = {} THEN o ELSE UpperMost(o)

BodyVariants == {"KinematicBody", "RigidBody", "StaticBody"}
BodyNodes == { i \in DOMAIN nodes : nodes[i].type \in BodyVariants }
ColNodes == { i \in DOMAIN nodes : nodes[i].type = "CollisionShape" }
BodyNodesOf(o) == { i \in BodyNodes : nodes[i].name[1] = o }
ColNodesOf(o) == { i \in ColNodes : nodes[i].name[1] = o }
ColNodeOf(o) == CHOOSE i \in ColNodes : nodes[i].name[1] = o

----------------------------------------------------------------------------
(* Properties of the hierarchy sessions *)

\* C1: get_physics_root(node) is the upper-most strict ancestor carrying a
\* rigid body (the one that has no such ancestor itself), and is None exactly
\* when no strict ancestor carries one; the result is fixed by the ancestors
\* alone, and is_physics_root(node) holds exactly when the result is None.
C1_UpperMostRoot ==
    \A o \in Objects :
        /\ (get_physics_root(o) = None) <=> (PhysicsAncestors(o) = {})
        /\ get_physics_root(o) # None =>
              /\ get_physics_root(o) \in PhysicsAncestors(o)
              /\ PhysicsAncestors(get_physics_root(o)) = {}
        /\ is_physics_root(o) <=> (PhysicsAncestors(o) = {})

\* The chain root -> A -> B, all three with physics, exported: the root of B
\* is the top object and not its parent A.
C1_Witness ==
    /\ num_objects >= 3
    /\ next_obj > 3
    /\ parent[2] = 1 /\ parent[3] = 2
    /\ has_rbd[1] /\ has_rbd[2] /\ has_rbd[3]
    /\ get_physics_root(3) = 1
    /\ nodes[ColNodeOf(3)].transform = <<1, 3>>

\* C2: among the objects exported so far, a physics root has exactly one
\* body node, every other object has none, every body node belongs to an
\* exported object, and a physics-enabled object has exactly one
\* CollisionShape node (an object without physics has none).
C2_OneBodyPerRoot ==
    /\ \A o \in Exported :
          /\ Cardinality(BodyNodesOf(o)) = (IF IsRoot(o) THEN 1 ELSE 0)
          /\ Cardinality(ColNodesOf(o)) = (IF has_rbd[o] THEN 1 ELSE 0)
    /\ \A i \in BodyNodes \cup ColNodes : nodes[i].name[1] \in Exported
    /\ Cardinality(BodyNodes) = Cardinality({ o \in Exported : IsRoot(o) })
    /\ Cardinality(ColNodes) = Cardinality(ExportedPhysics)

\* The whole scene is exported and holds a physics root with a
\* physics-enabled descendant: two collision nodes, one body node.
C2_Witness ==
    /\ next_obj > num_objects
    /\ \E r, o \in ExportedPhysics : IsRoot(r) /\ r \in PhysicsAncestors(o)
    /\ \E o \in Exported : ~has_rbd[o]

\* C3: the CollisionShape node of every exported physics-enabled object is
\* a child of the body node created for the object's physics root (the
\* object itself when no ancestor carries physics, else its upper-most
\* physics ancestor), whatever lies between the two in the hierarchy.
C3_ShapeUnderRootBody ==
    \A o \in ExportedPhysics :
        \A c \in ColNodesOf(o) :
            /\ nodes[c].parent \in BodyNodesOf(RootOf(o))
            /\ nodes[c].transform =
                  <<(IF RootOf(o) = o THEN None ELSE RootOf(o)), o>>

\* A root and a descendant that is not its child, below another
\* physics-enabled object or a container without physics: both collision
\* nodes are attached to the one body node of the root.
C3_Witness ==
    \E r, o \in ExportedPhysics :
        /\ IsRoot(r) /\ o # r /\ RootOf(o) = r
        /\ parent[o] # r
        /\ nodes[ColNodeOf(o)].parent = nodes[ColNodeOf(r)].parent
        /\ nodes[ColNodeOf(o)].parent \in BodyNodesOf(r)

\* C8: in the registration order of the output file, every CollisionShape
\* node comes after the body node of its object's physics root; for a root,
\* after the body node created in the same call.
C8_BodyBeforeShape ==
    \A c \in ColNodes :
        \E b \in BodyNodesOf(RootOf(nodes[c].name[1])) :
            /\ b < c
            /\ nodes[c].parent = b

\* A descendant's collision node registered after other nodes that follow
\* the body node of its root.
C8_Witness ==
    \E c \in ColNodes :
        /\ RootOf(nodes[c].name[1]) # nodes[c].name[1]
        /\ nodes[c].parent + 3 < c

\* C9: the upward walk never leaves the top of the output tree: no call of
\* export_physics_properties fails, and every call ends with a
\* CollisionShape node under a body node.
C9_WalkTotal ==
    /\ ~error
    /\ \A o \in ExportedPhysics :
          \E c \in ColNodesOf(o) : nodes[c].parent \in BodyNodes

\* A walk of several steps: the attachment context of an exported
\* physics-enabled object is the node of a container without physics.
C9_Witness ==
    \E o \in ExportedPhysics :
        /\ parent[o] # None
        /\ ~has_rbd[parent[o]]
        /\ nodes[gd_node[parent[o]]].type = "Spatial"
        /\ nodes[nodes[gd_node[parent[o]]].parent].type = "MeshInstance"
        /\ nodes[ColNodeOf(o)].parent \in BodyNodes

----------------------------------------------------------------------------
(* Properties of the shape-cache sessions *)

Rbd(o) == bl_objects[o].rigid_body
ShapeOf(o) == nodes[ColNodeOf(o)].shape
ShapeResourceTypes ==
    {"BoxShape", "SphereShape", "CapsuleShape", "ConvexPolygonShape",
     "ConcavePolygonShape"}
MeshShapeType(kind) ==
    IF kind = "CONVEX_HULL" THEN "ConvexPolygonShape" ELSE "ConcavePolygonShape"

\* The mesh collaborator yields a mesh the shape kind can be built from.
UsableMesh(kind, data) ==
    \/ kind = "CONVEX_HULL" /\ data # "empty"
    \/ kind = "MESH" /\ data = "solid"

\* The margin a rigid body asks for: none, or a value.
MarginSetting(rbd) ==
    IF rbd.use_margin THEN <<TRUE, rbd.collision_margin>> ELSE <<FALSE, 0>>

\* Two exported objects asking for the same mesh-derived shape kind over the
\* same mesh data, the mesh being usable.
SameMeshRequest(o1, o2) ==
    /\ o1 # o2
    /\ Rbd(o1).collision_shape \in MeshShapes
    /\ Rbd(o1).collision_shape = Rbd(o2).collision_shape
    /\ bl_objects[o1].data = bl_objects[o2].data
    /\ UsableMesh(Rbd(o1).collision_shape, bl_objects[o1].data)

\* The resources registered for the mesh-derived request of object o.
ResourcesFor(o) ==
    { i \in DOMAIN internal_resources :
        /\ internal_resources[i].type = MeshShapeType(Rbd(o).collision_shape)
        /\ internal_resources[i].name = bl_objects[o].data
        /\ internal_resources[i].key.data[1] =
              (IF Rbd(o).use_margin THEN Rbd(o).collision_margin ELSE 0) }

Keyed == { i \in DOMAIN internal_resources : internal_resources[i].key.cls # "" }

\* C4: two objects with the same mesh-derived shape kind, mesh data and
\* margin (flag and value), the mesh being usable, refer to the same
\* registered shape id, and one resource is registered for it; no two
\* registered resources have equal cache keys.
C4_CacheHit ==
    /\ \A o1, o2 \in ExportedPhysics :
          ( /\ SameMeshRequest(o1, o2)
            /\ Rbd(o1).use_margin = Rbd(o2).use_margin
            /\ Rbd(o1).collision_margin = Rbd(o2).collision_margin )
          => /\ ShapeOf(o1) # Unset
             /\ ShapeOf(o1) = ShapeOf(o2)
             /\ ShapeOf(o1)[2] \in ResourcesFor(o1)
             /\ Cardinality(ResourcesFor(o1)) = 1
    /\ \A i, j \in Keyed :
          i # j => ~KeyEq(internal_resources[i].key, internal_resources[j].key)

\* Two objects with the same convex request and margin, both exported.
C4_Witness ==
    /\ next_obj > 2
    /\ has_rbd[1] /\ has_rbd[2]
    /\ SameMeshRequest(1, 2)
    /\ Rbd(1).use_margin /\ Rbd(2).use_margin
    /\ Rbd(1).collision_margin = Rbd(2).collision_margin
    /\ ShapeOf(1) = ShapeOf(2)
    /\ ShapeOf(2) # Unset

\* C5 as stated: two requests that differ only in the margin of the rigid
\* body get distinct shape ids, and two resources are registered.
C5_MarginDistinct ==
    \A o1, o2 \in ExportedPhysics :
        ( /\ SameMeshRequest(o1, o2)
          /\ MarginSetting(Rbd(o1)) # MarginSetting(Rbd(o2)) )
        => /\ ShapeOf(o1) # Unset /\ ShapeOf(o2) # Unset
           /\ ShapeOf(o1) # ShapeOf(o2)
           /\ Cardinality(
                  { i \in DOMAIN internal_resources :
                      /\ internal_resources[i].type =
                            MeshShapeType(Rbd(o1).collision_shape)
                      /\ internal_resources[i].name = bl_objects[o1].data })
                >= 2

\* C6 as stated: every 'shape' property of a CollisionShape node names the
\* id of a shape resource registered in the resource table.
C6_ShapeResolves ==
    \A c \in ColNodes :
        nodes[c].shape # Unset =>
            /\ nodes[c].shape[1] = "SubResource"
            /\ nodes[c].shape[2] \in DOMAIN internal_resources
            /\ internal_resources[nodes[c].shape[2]].type \in ShapeResourceTypes

\* C7: two distinct objects with primitive shapes refer to distinct
\* registered resources, also when kind and margin agree; two objects with
\* the same mesh-derived kind, mesh data and margin have the same 'shape'.
C7_PrimitivesNotShared ==
    \A o1, o2 \in ExportedPhysics :
        /\ ( /\ o1 # o2
             /\ Rbd(o1).collision_shape \in PrimitiveShapes
             /\ Rbd(o2).collision_shape \in PrimitiveShapes )
           => /\ ShapeOf(o1) # Unset /\ ShapeOf(o2) # Unset
              /\ ShapeOf(o1)[2] \in DOMAIN internal_resources
              /\ ShapeOf(o2)[2] \in DOMAIN internal_resources
              /\ ShapeOf(o1)[2] # ShapeOf(o2)[2]
        /\ ( /\ o1 # o2
             /\ Rbd(o1).collision_shape \in MeshShapes
             /\ Rbd(o1).collision_shape = Rbd(o2).collision_shape
             /\ bl_objects[o1].data = bl_objects[o2].data
             /\ Rbd(o1).use_margin = Rbd(o2).use_margin
             /\ Rbd(o1).collision_margin = Rbd(o2).collision_margin )
           => ShapeOf(o1) = ShapeOf(o2)

\* Two exported objects with the same primitive kind and the same margin.
C7_Witness ==
    /\ next_obj > 2
    /\ has_rbd[1] /\ has_rbd[2]
    /\ Rbd(1).collision_shape = "BOX"
    /\ Rbd(1) = Rbd(2)
    /\ ShapeOf(1) # ShapeOf(2)

\* An earlier exported object registered the shape that object o asks for.
CacheHit(o) ==
    \E e \in ExportedPhysics :
        /\ e < o
        /\ SameMeshRequest(e, o)
        /\ (IF Rbd(e).use_margin THEN Rbd(e).collision_margin ELSE 0) =
           (IF Rbd(o).use_margin THEN Rbd(o).collision_margin ELSE 0)

\* C10: the calls to the mesh collaborator come in pairs, to_mesh followed
\* at once by to_mesh_clear for the same object, so no mesh stays acquired
\* after a call; a mesh is acquired once for a mesh-derived request that
\* misses the cache, and never for a cache hit or another shape kind.
C10_MeshReleased ==
    /\ Len(mesh_log) % 2 = 0
    /\ \A k \in DOMAIN mesh_log :
          k % 2 = 1 =>
              /\ mesh_log[k][1] = "to_mesh"
              /\ mesh_log[k + 1] = <<"to_mesh_clear", mesh_log[k][2]>>
    /\ \A o \in ExportedPhysics :
          Cardinality({ k \in DOMAIN mesh_log : mesh_log[k] = <<"to_mesh", o>> })
            = (IF Rbd(o).collision_shape \in MeshShapes /\ ~CacheHit(o)
               THEN 1 ELSE 0)

\* A convex request whose mesh is absent and a concave request whose mesh
\* has no polygons: both acquired a mesh, built nothing and released it.
C10_Witness ==
    /\ next_obj > 2
    /\ has_rbd[1] /\ has_rbd[2]
    /\ Rbd(1).collision_shape = "CONVEX_HULL" /\ bl_objects[1].data = "empty"
    /\ Rbd(2).collision_shape = "MESH" /\ bl_objects[2].data = "verts"
    /\ ShapeOf(1) = Unset /\ ShapeOf(2) = Unset
    /\ Len(mesh_log) = 4

====
